---- MODULE Spec2Model ----
(***************************************************************************)
(* AND/OR composition of sigma protocols (compiler/CompositionProofs.py).  *)
(*                                                                         *)
(* Proof trees (AndProof, OrProof over leaf proofs), the prover and        *)
(* verifier sides of the three-move protocol, and the residual-challenge   *)
(* computation of the OR composition.  Leaves are discrete-logarithm       *)
(* representation proofs over the additive group Z_q with a small q.       *)
(*                                                                         *)
(* Python exceptions are modelled as result records whose field err names  *)
(* the exception; err = "none" is a normal return.                         *)
(***************************************************************************)
EXTENDS Integers, Sequences, FiniteSets, TLC

(***************************************************************************)
(* Bounds of the model.                                                    *)
(***************************************************************************)
\* largest number of nodes (leaves included) of a proof tree
MaxNodes == 5
\* largest number of nodes of a proof tree a session is run on
MaxSessionNodes == 3
\* redraws of OrProof.get_prover that are counted before the counter saturates
MaxRedraws == 3

(***************************************************************************)
(* Scaled-down parameters of the protocol and of the leaf layer.           *)
(***************************************************************************)
\* bit length of a challenge (SigmaProtocol.CHAL_LENGTH)
CHAL_LENGTH == 2
\* order of the group the generators live in
GroupOrder == 3

SecretNames == {"x", "y"}

\* the witness the public values of the leaf statements are computed from
TrueSecret(name) == IF name = "x" THEN 1 ELSE 2

Pow2(n) == 2 ^ n

Range(s) == {s[i] : i \in DOMAIN s}

\* a Python dict: a function whose domain is its key set; {} is the empty one
EmptyDict == [n \in {} |-> 0]

\* d1.update(d2) on a copy of d1
DictUpdate(d1, d2) ==
    [n \in (DOMAIN d1) \cup (DOMAIN d2) |-> IF n \in DOMAIN d2 THEN d2[n] ELSE d1[n]]

\* every dict with key set keys and values in vals
Dicts(keys, vals) == [keys -> vals]

(***************************************************************************)
(* Challenge arithmetic.                                                   *)
(***************************************************************************)
RECURSIVE add_Bn_array_from(_, _, _, _)
add_Bn_array_from(arr, i, res, modulus) ==
    IF i > Len(arr) THEN res
    ELSE add_Bn_array_from(arr, i + 1, (res + arr[i]) % modulus, modulus)

\* SigmaProtocol.add_Bn_array: the elements added one by one with Bn.mod_add,
\* whose result lies in [0, modulus) whatever the sign of the operands
add_Bn_array(arr, modulus) == add_Bn_array_from(arr, 1, 0, modulus)

\* the residual challenge without the final negation
find_residual_chal_unnegated(arr, challenge, chal_length) ==
    add_Bn_array(Append(arr, -challenge), Pow2(chal_length))

\* the residual challenge reduced into [0, 2^chal_length)
find_residual_chal_reduced(arr, challenge, chal_length) ==
    (-add_Bn_array(Append(arr, -challenge), Pow2(chal_length))) % Pow2(chal_length)

\* find_residual_chal: the sum of arr and -challenge under the modulus, negated
find_residual_chal(arr, challenge, chal_length) ==
    -add_Bn_array(Append(arr, -challenge), Pow2(chal_length))

\* the challenges chal_randbits(CHAL_LENGTH) can draw
Challenges == 0 .. (Pow2(CHAL_LENGTH) - 1)

\* the scalars group.order().random() can draw
Scalars == 0 .. (GroupOrder - 1)

(***************************************************************************)
(* Proof trees.  Every node is a record of the same shape:                 *)
(*   kind          "Leaf", "And" or "Or"                                   *)
(*   subproofs     the children, in order (empty for a leaf)               *)
(*   secret_names  the ordered secret names (with repetitions)             *)
(*   generators    the generators, aligned with secret_names               *)
(*   simulate      the flag set by set_simulate                            *)
(***************************************************************************)
Leaf(names, gens) ==
    [kind |-> "Leaf", subproofs |-> <<>>, secret_names |-> names,
     generators |-> gens, simulate |-> FALSE]

\* the leaf statements of the model: two relations on x and one on y
Leaves == {Leaf(<<"x">>, <<1>>), Leaf(<<"x">>, <<2>>), Leaf(<<"y">>, <<1>>)}

RECURSIVE Flatten(_)
\* the concatenation of a sequence of sequences
Flatten(seqs) ==
    IF seqs = <<>> THEN <<>> ELSE Head(seqs) \o Flatten(Tail(seqs))

\* SigmaProtocol.get_secret_names: the children's secret_names, concatenated
get_secret_names(subs) == Flatten([i \in DOMAIN subs |-> subs[i].secret_names])

\* SigmaProtocol.get_generators: the children's generators, concatenated
get_generators(subs) == Flatten([i \in DOMAIN subs |-> subs[i].generators])

\* set(p.secret_names)
Names(p) == Range(p.secret_names)

\* Proof.set_simulate
set_simulate(p) == [p EXCEPT !.simulate = TRUE]

RECURSIVE Size(_)
RECURSIVE SumSizes(_, _)
SumSizes(subs, i) == IF i > Len(subs) THEN 0 ELSE Size(subs[i]) + SumSizes(subs, i + 1)
\* the number of nodes of a proof tree
Size(p) == 1 + SumSizes(p.subproofs, 1)

(***************************************************************************)
(* Construction: AndProof.__init__, OrProof.__init__, check_or_flaw.       *)
(* A constructor argument is a proof or a list of proofs; a list argument  *)
(* is the record ListArg(elems).  The arguments of one call are distinct   *)
(* objects, so that the comparison other_sub != subp of check_or_flaw is   *)
(* the comparison of their positions.  All generators live in one group,   *)
(* so check_groups accepts every tree and is left out.                     *)
(***************************************************************************)
ListArg(elems) ==
    [kind |-> "List", subproofs |-> elems, secret_names |-> <<>>,
     generators |-> <<>>, simulate |-> FALSE]

Ok(v) == [err |-> "none", val |-> v]
Raise(e) == [err |-> e, val |-> <<>>]

\* the loop of the constructors over their arguments: lists are extended into
\* list_subproofs, everything else is appended
list_subproofs(args) ==
    Flatten([i \in DOMAIN args |->
                IF args[i].kind = "List" THEN args[i].subproofs ELSE <<args[i]>>])

\* bool(name) for a secret name
Truthy(name) == name # ""

\* any(x in names for x in forbidden)
AnyForbidden(names, forbidden) == \E i \in DOMAIN forbidden : forbidden[i] \in Range(names)

\* any(set(a) & set(b))
AnyShared(a, b) == \E n \in Range(a) \cap Range(b) : Truthy(n)

\* the inner loop of check_or_flaw over the other subproofs of the same node
SameLevelFlaw(subs, i) ==
    \E j \in DOMAIN subs : j # i /\ AnyShared(subs[i].secret_names, subs[j].secret_names)

RECURSIVE check_or_flaw_from(_, _, _)
\* AndProof.check_or_flaw, from the i-th subproof on.  forbidden is the one list
\* object shared by the whole walk: val is that list as the call leaves it.
check_or_flaw_from(subs, i, forbidden) ==
    IF i > Len(subs) THEN Ok(forbidden)
    ELSE IF subs[i].kind = "Or" THEN
        IF AnyForbidden(subs[i].secret_names, forbidden) THEN Raise("Or flaw detected")
        ELSE IF SameLevelFlaw(subs, i) THEN Raise("Or flaw detected (same_level)")
        ELSE check_or_flaw_from(subs, i + 1, forbidden)
    ELSE IF subs[i].kind = "And" THEN
        LET inner == check_or_flaw_from(subs[i].subproofs, 1,
                                        forbidden \o subs[i].secret_names)
        IN  IF inner.err # "none" THEN inner
            ELSE check_or_flaw_from(subs, i + 1, inner.val)
    ELSE check_or_flaw_from(subs, i + 1, forbidden)

\* check_or_flaw without the walk down into the And subproofs
check_or_flaw_flat(p, forbidden) ==
    IF \E i \in DOMAIN p.subproofs :
          p.subproofs[i].kind = "Or" /\ SameLevelFlaw(p.subproofs, i)
    THEN Raise("Or flaw detected (same_level)") ELSE Ok(forbidden)

\* check_or_flaw that accepts every tree
check_or_flaw_none(p, forbidden) == Ok(forbidden)

\* AndProof.check_or_flaw(forbidden_secrets)
check_or_flaw(p, forbidden) == check_or_flaw_from(p.subproofs, 1, forbidden)

\* the node a constructor builds from list_subproofs
Node(kind, subs) ==
    [kind |-> kind, subproofs |-> subs, secret_names |-> get_secret_names(subs),
     generators |-> get_generators(subs), simulate |-> FALSE]

\* AndProof.__init__(*args)
AndProof(args) ==
    IF args = <<>> THEN Raise("AndProof needs arguments !")
    ELSE LET self == Node("And", list_subproofs(args))
             flaw == check_or_flaw(self, <<>>)
         IN  IF flaw.err # "none" THEN Raise(flaw.err) ELSE Ok(self)

\* OrProof.__init__(*args)
OrProof(args) ==
    IF args = <<>> THEN Raise("OrProof needs arguments !")
    ELSE Ok(Node("Or", list_subproofs(args)))

(***************************************************************************)
(* The proof trees the constructors accept, by number of nodes.            *)
(***************************************************************************)
RECURSIVE ProofsOfSize(_)
RECURSIVE ArgsOfTotal(_)
\* the argument sequences (no list arguments) whose trees have m nodes in all
ArgsOfTotal(m) ==
    IF m = 0 THEN {<<>>}
    ELSE UNION {{<<p>> \o rest : p \in ProofsOfSize(k), rest \in ArgsOfTotal(m - k)} :
                k \in 1 .. m}

\* the outcomes of both constructors on the argument sequences in argset
Constructed(argset) ==
    {AndProof(a) : a \in argset} \cup {OrProof(a) : a \in argset}

\* the trees of n nodes that construction accepts
ProofsOfSize(n) ==
    IF n = 1 THEN Leaves
    ELSE {r.val : r \in {c \in Constructed(ArgsOfTotal(n - 1)) : c.err = "none"}}

\* the plain argument sequences of a constructor call within the bound
PlainArgs == UNION {ArgsOfTotal(m) : m \in 1 .. (MaxNodes - 1)}

\* every argument tuple of the model: no argument, plain proofs, or one list
BuildArgs ==
    {<<>>} \cup PlainArgs \cup {<<ListArg(a)>> : a \in PlainArgs \cup {<<>>}}

NoProof ==
    [kind |-> "None", subproofs |-> <<>>, secret_names |-> <<>>,
     generators |-> <<>>, simulate |-> FALSE]

NoCall == [op |-> "none", args |-> <<>>]

(***************************************************************************)
(* Prover trees.  Every prover is a record of the same shape:              *)
(*   kind           "Leaf", "And" or "Or"                                  *)
(*   proof          the proof node the prover was made from                *)
(*   subs           the subprovers, in order                               *)
(*   secret_values  the secrets dict the prover holds                      *)
(*   true_prover    OrProver: the index of the real branch, 0 for None     *)
(*   simulations    OrProver: the cached simulated transcripts             *)
(*   ks             leaf: the randomizers of the last commit               *)
(* Indices are 1-based.                                                    *)
(***************************************************************************)
Prover(kind, p, subs, secret_values) ==
    [kind |-> kind, proof |-> p, subs |-> subs, secret_values |-> secret_values,
     true_prover |-> 0, simulations |-> <<>>, ks |-> <<>>]

\* the dict d restricted to the names in keys: dict((k, d[k]) for k in keys).
\* A name that d lacks raises KeyError in the code; the callers of the model
\* only restrict to names they have tested to be present.
SubDict(d, keys) == [n \in keys \cap DOMAIN d |-> d[n]]

RECURSIVE find_legit_prover_from(_, _)
find_legit_prover_from(subs, index) ==
    IF index > Len(subs) THEN 0
    ELSE IF subs[index].secret_values # EmptyDict THEN index
    ELSE find_legit_prover_from(subs, index + 1)

\* find_legit_prover that takes the last subprover whatever it holds
find_legit_prover_last(subs) == Len(subs)

\* OrProver.find_legit_prover: the first subprover holding secrets, 0 for None
find_legit_prover(subs) == find_legit_prover_from(subs, 1)

\* OrProver.__init__
OrProver(p, subprovers, secret_values) ==
    [Prover("Or", p, subprovers, secret_values)
        EXCEPT !.true_prover = find_legit_prover(subprovers)]

\* AndProofProver.__init__
AndProofProver(p, subprovers, secret_values) ==
    Prover("And", p, subprovers, secret_values)

RECURSIVE get_simulator(_)
\* get_simulator of a leaf, of AndProof and of OrProof: a prover holding no secret
get_simulator(p) ==
    LET arr == [i \in DOMAIN p.subproofs |-> get_simulator(p.subproofs[i])]
    IN  IF p.kind = "Leaf" THEN Prover("Leaf", p, <<>>, EmptyDict)
        ELSE IF p.kind = "Or" THEN OrProver(p, arr, EmptyDict)
        ELSE AndProofProver(p, arr, EmptyDict)

\* possible: the indices of the candidates, the branches not flagged simulate
Possible(p) == {i \in DOMAIN p.subproofs : ~p.subproofs[i].simulate}

\* the condition of the redraw loop: a secret name of the drawn branch is not in
\* bigset
MustRedraw(p, idx, bigset) == \E n \in Names(p.subproofs[idx]) : n \notin bigset

\* the candidates on which the redraw loop ends
Provable(p, bigset) == {i \in Possible(p) : ~MustRedraw(p, i, bigset)}

RECURSIVE get_prover(_, _)
RECURSIVE sub_provers(_, _, _)
\* the list comprehension of AndProof.get_prover from the i-th subproof on: each
\* subproof gets the secrets whose names it uses.  The set of outcomes.
sub_provers(subs, i, secrets_dict) ==
    IF i > Len(subs) THEN {Ok(<<>>)}
    ELSE UNION {
        IF first.err # "none" THEN {Raise(first.err)}
        ELSE {IF rest.err # "none" THEN rest ELSE Ok(<<first.val>> \o rest.val) :
              rest \in sub_provers(subs, i + 1, secrets_dict)} :
        first \in get_prover(subs[i], SubDict(secrets_dict, Names(subs[i])))}

\* AndProof.get_prover: the simulate branch calls the undefined global
\* get_simulator and raises NameError
AndProof_get_prover(p, secrets_dict) ==
    IF p.simulate \/ secrets_dict = EmptyDict THEN {Raise("NameError")}
    ELSE {IF r.err # "none" THEN r ELSE Ok(AndProofProver(p, r.val, secrets_dict)) :
          r \in sub_provers(p.subproofs, 1, secrets_dict)}

\* the OrProver built once the loop has ended on chosen: the chosen branch gets a
\* real prover for its own secrets, every other branch a simulator
OrProof_finish(p, chosen, secrets_dict) ==
    LET elem == p.subproofs[chosen]
        subdict == SubDict(secrets_dict, Names(elem))
    IN  {IF real.err # "none" THEN real
         ELSE Ok(OrProver(p,
                          [i \in DOMAIN p.subproofs |->
                              IF i = chosen THEN real.val
                              ELSE get_simulator(p.subproofs[i])],
                          secrets_dict)) :
         real \in get_prover(elem, subdict)}

\* OrProof.get_prover.  random.choice on an empty list raises IndexError; with
\* candidates of which none is provable the loop redraws forever, the outcome
\* "diverges"; otherwise the loop ends on any provable candidate.
OrProof_get_prover(p, secrets_dict) ==
    IF p.simulate \/ secrets_dict = EmptyDict THEN {Ok(get_simulator(p))}
    ELSE IF Possible(p) = {} THEN {Raise("IndexError")}
    ELSE IF Provable(p, DOMAIN secrets_dict) = {} THEN {Raise("diverges")}
    ELSE UNION {OrProof_finish(p, chosen, secrets_dict) :
                chosen \in Provable(p, DOMAIN secrets_dict)}

\* get_prover of a leaf: a prover for the secrets handed in, a simulator when
\* there are none or the leaf is flagged
Leaf_get_prover(p, secrets_dict) ==
    IF p.simulate \/ secrets_dict = EmptyDict THEN {Ok(get_simulator(p))}
    ELSE {Ok(Prover("Leaf", p, <<>>, secrets_dict))}

\* Proof.get_prover, by the class of the node: the set of its outcomes
get_prover(p, secrets_dict) ==
    IF p.kind = "Leaf" THEN Leaf_get_prover(p, secrets_dict)
    ELSE IF p.kind = "Or" THEN OrProof_get_prover(p, secrets_dict)
    ELSE AndProof_get_prover(p, secrets_dict)

(***************************************************************************)
(* The leaf layer: a proof of knowledge of a discrete-logarithm             *)
(* representation, the public value being sum(secret_i * generator_i) in   *)
(* the additive group of integers modulo GroupOrder.                       *)
(***************************************************************************)
RECURSIVE LinComb(_, _, _)
\* sum of vals[i] * gens[i] from index i on, in the group
LinComb(vals, gens, i) ==
    IF i > Len(gens) THEN 0
    ELSE (vals[i] * gens[i] + LinComb(vals, gens, i + 1)) % GroupOrder

\* the public value of a leaf statement
Public(p) ==
    LinComb([i \in DOMAIN p.secret_names |-> TrueSecret(p.secret_names[i])],
            p.generators, 1)

\* an optional argument: None, or a value
NoneArg == [given |-> FALSE, v |-> 0]
Some(v) == [given |-> TRUE, v |-> v]

\* the values a dict d gives to the ordered names of p
Along(p, d) == [i \in DOMAIN p.secret_names |-> d[p.secret_names[i]]]

\* leaf recompute_commitment: the commitment that matches challenge and response
Leaf_recompute_commitment(p, chal, resp) ==
    Ok(<<(LinComb(resp, p.generators, 1) - chal * Public(p)) % GroupOrder>>)

\* get_randomizers of any prover: one fresh scalar per unique secret name of its
\* subtree (AndProofProver draws them itself, OrProver merges its subprovers')
get_randomizers(pr) == Dicts(Names(pr.proof), Scalars)

\* leaf commit: the randomizers are read from the dict, remembered in ks, and
\* committed to (a missing name is drawn afresh)
Leaf_commit(pr, randomizers) ==
    {LET d == IF randomizers.given THEN DictUpdate(fresh, randomizers.v) ELSE fresh
         ks == Along(pr.proof, d)
     IN  [err |-> "none", val |-> <<LinComb(ks, pr.proof.generators, 1)>>,
          st |-> [pr EXCEPT !.ks = ks]] :
     fresh \in get_randomizers(pr)}

\* leaf compute_response: response_i = k_i + challenge * secret_i
Leaf_compute_response(pr, chal) ==
    IF Names(pr.proof) \subseteq DOMAIN pr.secret_values /\ Len(pr.ks) = Len(pr.proof.secret_names)
    THEN Ok([i \in DOMAIN pr.proof.secret_names |->
                (pr.ks[i] + chal * pr.secret_values[pr.proof.secret_names[i]])
                    % GroupOrder])
    ELSE Raise("KeyError")

\* leaf simulate_proof: responses from the dict (fresh when None), the challenge
\* (fresh when None), and the commitment recomputed from both
Leaf_simulate_proof(pr, responses_dict, chal) ==
    {IF ~(Names(pr.proof) \subseteq DOMAIN d) THEN Raise("KeyError")
     ELSE LET resp == Along(pr.proof, d)
          IN  Ok(<<Leaf_recompute_commitment(pr.proof, c, resp).val, c, resp>>) :
     d \in (IF responses_dict.given THEN {responses_dict.v} ELSE get_randomizers(pr)),
     c \in (IF chal.given THEN {chal.v} ELSE Challenges)}

(***************************************************************************)
(* simulate_proof.  The value of an outcome is <<commitment, challenge,     *)
(* response>>; an operation that draws random values has a set of outcomes.*)
(***************************************************************************)
RECURSIVE simulate_proof(_, _, _)
RECURSIVE And_simulate_from(_, _, _, _, _, _)
\* the loop of AndProofProver.simulate_proof from the i-th subprover on
And_simulate_from(pr, i, d, c, com, resp) ==
    IF i > Len(pr.subs) THEN {Ok(<<com, c, resp>>)}
    ELSE UNION {
        IF t.err # "none" THEN {t}
        ELSE And_simulate_from(pr, i + 1, d, c, Append(com, t.val[1]),
                               Append(resp, t.val[3])) :
        t \in simulate_proof(pr.subs[i], Some(d), Some(c))}

\* AndProofProver.simulate_proof
AndProofProver_simulate_proof(pr, responses_dict, chal) ==
    UNION {And_simulate_from(pr, 1, d, c, <<>>, <<>>) :
           d \in (IF responses_dict.given THEN {responses_dict.v}
                  ELSE get_randomizers(pr)),
           c \in (IF chal.given THEN {chal.v} ELSE Challenges)}

RECURSIVE Or_simulate_from(_, _, _, _, _, _, _)
\* the loop of OrProver.simulate_proof over all subprovers but the last, then
\* the last one under the residual challenge
Or_simulate_from(pr, i, d, c, com, resp, or_chals) ==
    IF i < Len(pr.subs) THEN
        UNION {
            IF t.err # "none" THEN {t}
            ELSE Or_simulate_from(pr, i + 1, d, c, Append(com, t.val[1]),
                                  Append(resp, t.val[3]), Append(or_chals, t.val[2])) :
            t \in simulate_proof(pr.subs[i], Some(d), NoneArg)}
    ELSE LET final_chal == find_residual_chal(or_chals, c, CHAL_LENGTH)
         IN  {IF t.err # "none" THEN t
              ELSE Ok(<<Append(com, t.val[1]), c,
                        <<Append(or_chals, final_chal), Append(resp, t.val[3])>>>>) :
              t \in simulate_proof(pr.subs[i], Some(d), Some(final_chal))}

\* OrProver.simulate_proof.  With fewer than two subprovers the loop variable
\* index is never bound and self.subs[index+1] raises UnboundLocalError.
OrProver_simulate_proof(pr, responses_dict, chal) ==
    IF Len(pr.subs) < 2 THEN {Raise("UnboundLocalError")}
    ELSE UNION {Or_simulate_from(pr, 1, d, c, <<>>, <<>>, <<>>) :
                d \in (IF responses_dict.given THEN {responses_dict.v}
                       ELSE get_randomizers(pr)),
                c \in (IF chal.given THEN {chal.v} ELSE Challenges)}

\* Prover.simulate_proof, by the class of the prover
simulate_proof(pr, responses_dict, chal) ==
    IF pr.kind = "Leaf" THEN Leaf_simulate_proof(pr, responses_dict, chal)
    ELSE IF pr.kind = "Or" THEN OrProver_simulate_proof(pr, responses_dict, chal)
    ELSE AndProofProver_simulate_proof(pr, responses_dict, chal)

(***************************************************************************)
(* commit.  An outcome carries the commitment (val) and the prover as the  *)
(* call leaves it (st).                                                    *)
(***************************************************************************)
Committed(com, st) == [err |-> "none", val |-> com, st |-> st]
CommitRaised(e, st) == [err |-> e, val |-> <<>>, st |-> st]

RECURSIVE commit(_, _)
RECURSIVE And_commit_from(_, _, _, _)
\* the loop of AndProofProver.commit from the i-th subprover on: every
\* subprover is handed the same dict d
And_commit_from(pr, i, d, com) ==
    IF i > Len(pr.subs) THEN {Committed(com, pr)}
    ELSE UNION {
        IF o.err # "none" THEN {CommitRaised(o.err, [pr EXCEPT !.subs[i] = o.st])}
        ELSE And_commit_from([pr EXCEPT !.subs[i] = o.st], i + 1, d, Append(com, o.val)) :
        o \in commit(pr.subs[i], Some(d))}

\* AndProofProver.commit handing each subprover no dict, so that each draws its
\* own randomizers
RECURSIVE And_commit_unshared_from(_, _, _)
And_commit_unshared_from(pr, i, com) ==
    IF i > Len(pr.subs) THEN {Committed(com, pr)}
    ELSE UNION {
        IF o.err # "none" THEN {CommitRaised(o.err, [pr EXCEPT !.subs[i] = o.st])}
        ELSE And_commit_unshared_from([pr EXCEPT !.subs[i] = o.st], i + 1,
                                      Append(com, o.val)) :
        o \in commit(pr.subs[i], NoneArg)}

AndProofProver_commit_unshared(pr, randomizers) ==
    And_commit_unshared_from(pr, 1, <<>>)

\* AndProofProver.commit letting the fresh randomizers replace the supplied
\* ones when the given dict is incomplete
AndProofProver_commit_overridden(pr, randomizers) ==
    UNION {And_commit_from(pr, 1, d, <<>>) :
           d \in (IF ~randomizers.given THEN get_randomizers(pr)
                  ELSE IF \E n \in Names(pr.proof) : n \notin DOMAIN randomizers.v
                       THEN {DictUpdate(randomizers.v, fresh) :
                             fresh \in get_randomizers(pr)}
                       ELSE {randomizers.v})}

\* AndProofProver.commit: fresh randomizers when none are given, the missing
\* ones drawn afresh when the given dict is incomplete
AndProofProver_commit(pr, randomizers) ==
    UNION {And_commit_from(pr, 1, d, <<>>) :
           d \in (IF ~randomizers.given THEN get_randomizers(pr)
                  ELSE IF \E n \in Names(pr.proof) : n \notin DOMAIN randomizers.v
                       THEN {DictUpdate(fresh, randomizers.v) :
                             fresh \in get_randomizers(pr)}
                       ELSE {randomizers.v})}

RECURSIVE Or_commit_from(_, _, _)
\* the loop of OrProver.commit from subprover index on: the real branch
\* commits, every other branch is simulated and its transcript appended to
\* simulations
Or_commit_from(pr, index, com) ==
    IF index > Len(pr.subs) THEN {Committed(com, pr)}
    ELSE IF index = pr.true_prover THEN
        UNION {
            IF o.err # "none" THEN {CommitRaised(o.err, [pr EXCEPT !.subs[index] = o.st])}
            ELSE Or_commit_from([pr EXCEPT !.subs[index] = o.st], index + 1,
                                Append(com, o.val)) :
            o \in commit(pr.subs[index], NoneArg)}
    ELSE
        UNION {
            IF cur.err # "none" THEN {CommitRaised(cur.err, pr)}
            ELSE Or_commit_from([pr EXCEPT !.simulations = Append(@, cur.val)],
                                index + 1, Append(com, cur.val[1])) :
            cur \in simulate_proof(pr.subs[index], NoneArg, NoneArg)}

\* OrProver.commit without the test for a real branch
OrProver_commit_unguarded(pr, randomizers) ==
    Or_commit_from(pr, 1, <<>>)

\* OrProver.commit
OrProver_commit(pr, randomizers) ==
    IF pr.true_prover = 0 THEN {CommitRaised("cannot commit in a simulator", pr)}
    ELSE Or_commit_from(pr, 1, <<>>)

\* Prover.commit, by the class of the prover
commit(pr, randomizers) ==
    IF pr.kind = "Leaf" THEN Leaf_commit(pr, randomizers)
    ELSE IF pr.kind = "Or" THEN OrProver_commit(pr, randomizers)
    ELSE AndProofProver_commit(pr, randomizers)

(***************************************************************************)
(* compute_response.  An OR response is the pair <<challenges, responses>>.*)
(***************************************************************************)
RECURSIVE compute_response(_, _)
RECURSIVE collect_responses(_, _, _)
\* sub-responses from index i on, each subprover i answering chals[i]; the first
\* exception ends the collection
collect_responses(subs, chals, i) ==
    IF i > Len(subs) THEN Ok(<<>>)
    ELSE LET r == compute_response(subs[i], chals[i])
         IN  IF r.err # "none" THEN r
             ELSE LET rest == collect_responses(subs, chals, i + 1)
                  IN  IF rest.err # "none" THEN rest ELSE Ok(<<r.val>> \o rest.val)

\* AndProofProver.compute_response: the one challenge goes to every subprover
AndProofProver_compute_response(pr, chal) ==
    collect_responses(pr.subs, [i \in DOMAIN pr.subs |-> chal], 1)

\* index1 of OrProver.compute_response, as a 1-based position in simulations
SimulationIndex(index, true_prover) ==
    IF index > true_prover THEN index - 1 ELSE index

\* SimulationIndex without the shift past the real branch
SimulationIndex_unshifted(index, true_prover) == index

\* OrProver.compute_response: the residual challenge goes to the real branch,
\* the other branches return their cached challenge and response
OrProver_compute_response(pr, chal) ==
    LET chals == [k \in DOMAIN pr.simulations |-> pr.simulations[k][2]]
        residual_chal == find_residual_chal(chals, chal, CHAL_LENGTH)
        n == Len(pr.subs)
        real == IF pr.true_prover \in 1 .. n
                THEN compute_response(pr.subs[pr.true_prover], residual_chal)
                ELSE Ok(<<>>)
    IN  IF pr.true_prover = 0 /\ n > 0 THEN Raise("TypeError")
        ELSE IF \E i \in 1 .. n :
                /\ i < pr.true_prover
                /\ SimulationIndex(i, pr.true_prover) \notin DOMAIN pr.simulations
             THEN Raise("IndexError")
        ELSE IF real.err # "none" THEN real
        ELSE IF \E i \in 1 .. n :
                /\ i > pr.true_prover
                /\ SimulationIndex(i, pr.true_prover) \notin DOMAIN pr.simulations
             THEN Raise("IndexError")
        ELSE Ok(<<[i \in 1 .. n |->
                      IF i = pr.true_prover THEN residual_chal
                      ELSE pr.simulations[SimulationIndex(i, pr.true_prover)][2]],
                  [i \in 1 .. n |->
                      IF i = pr.true_prover THEN real.val
                      ELSE pr.simulations[SimulationIndex(i, pr.true_prover)][3]]>>)

\* Prover.compute_response, by the class of the prover
compute_response(pr, chal) ==
    IF pr.kind = "Leaf" THEN Leaf_compute_response(pr, chal)
    ELSE IF pr.kind = "Or" THEN OrProver_compute_response(pr, chal)
    ELSE AndProofProver_compute_response(pr, chal)

(***************************************************************************)
(* recompute_commitment, on the proof tree.                                *)
(***************************************************************************)
\* The OrProof nodes keep the branch challenges of the last call in their
\* attribute or_challenges.  oc maps the path of an OrProof node (the indexes
\* from the root) to that attribute; a node that was never recomputed has none.
NoOrChallenges == [q \in {} |-> <<>>]

\* self.or_challenges = responses[0] in the node at path
StoreOrChallenges(oc, path, chals) ==
    [q \in DOMAIN oc \cup {path} |-> IF q = path THEN chals ELSE oc[q]]

\* the outcome r of a recomputation that leaves the attributes as oc
Recomputed(r, oc) == [err |-> r.err, val |-> r.val, oc |-> oc]

RECURSIVE recompute_in(_, _, _, _, _)
RECURSIVE recompute_from(_, _, _, _, _, _)
\* comm.append(subproofs[i].recompute_commitment(chals[i], resps[i])) from i on,
\* in the node at path
recompute_from(subs, chals, resps, i, path, oc) ==
    IF i > Len(subs) THEN Recomputed(Ok(<<>>), oc)
    ELSE IF i \notin DOMAIN chals \/ i \notin DOMAIN resps
    THEN Recomputed(Raise("IndexError"), oc)
    ELSE LET r == recompute_in(subs[i], chals[i], resps[i], Append(path, i), oc)
         IN  IF r.err # "none" THEN r
             ELSE LET rest == recompute_from(subs, chals, resps, i + 1, path, r.oc)
                  IN  IF rest.err # "none" THEN rest
                      ELSE Recomputed(Ok(<<r.val>> \o rest.val), rest.oc)

\* AndProof.recompute_commitment: every subproof under the node's challenge
AndProof_recompute_commitment(p, chal, andresp, path, oc) ==
    recompute_from(p.subproofs, [i \in DOMAIN p.subproofs |-> chal], andresp, 1,
                   path, oc)

\* OrProof.recompute_commitment without the consistency test
OrProof_recompute_commitment_unchecked(p, chal, responses, path, oc) ==
    LET stored == StoreOrChallenges(oc, path, responses[1])
    IN  recompute_from(p.subproofs, stored[path], responses[2], 1, path, stored)

\* OrProof.recompute_commitment recomputing every branch under the node's own
\* challenge
OrProof_recompute_commitment_own(p, chal, responses, path, oc) ==
    LET stored == StoreOrChallenges(oc, path, responses[1])
    IN  IF find_residual_chal(stored[path], chal, CHAL_LENGTH) # 0
        THEN Recomputed(Raise("Inconsistent challenge"), stored)
        ELSE recompute_from(p.subproofs, [i \in DOMAIN p.subproofs |-> chal],
                            responses[2], 1, path, stored)

\* OrProof.recompute_commitment reading the branch challenges the node held
\* before the call, when it held any
OrProof_recompute_commitment_stale(p, chal, responses, path, oc) ==
    LET stored == StoreOrChallenges(oc, path, responses[1])
        held == IF path \in DOMAIN oc THEN oc[path] ELSE responses[1]
    IN  IF find_residual_chal(held, chal, CHAL_LENGTH) # 0
        THEN Recomputed(Raise("Inconsistent challenge"), stored)
        ELSE recompute_from(p.subproofs, held, responses[2], 1, path, stored)

\* OrProof.recompute_commitment: the branch challenges are stored in the node
\* and read back from it; they must leave no residue against the node's
\* challenge; branch i is recomputed under or_challenges[i]
OrProof_recompute_commitment(p, chal, responses, path, oc) ==
    LET stored == StoreOrChallenges(oc, path, responses[1])
    IN  IF find_residual_chal(stored[path], chal, CHAL_LENGTH) # 0
        THEN Recomputed(Raise("Inconsistent challenge"), stored)
        ELSE recompute_from(p.subproofs, stored[path], responses[2], 1, path, stored)

\* Proof.recompute_commitment, by the class of the node at path
recompute_in(p, chal, resp, path, oc) ==
    IF p.kind = "Leaf" THEN Recomputed(Leaf_recompute_commitment(p, chal, resp), oc)
    ELSE IF p.kind = "Or" THEN OrProof_recompute_commitment(p, chal, resp, path, oc)
    ELSE AndProof_recompute_commitment(p, chal, resp, path, oc)

\* the result of the call
Result(r) == [err |-> r.err, val |-> r.val]

\* recompute_commitment on a tree no call was made on before
recompute_commitment(p, chal, resp) ==
    Result(recompute_in(p, chal, resp, <<>>, NoOrChallenges))

(***************************************************************************)
(* check_responses_consistency, on the verifier tree, which mirrors the    *)
(* proof tree.  The result is <<verdict, responses_dict as the call leaves *)
(* it>>.                                                                   *)
(***************************************************************************)
RECURSIVE Leaf_check_from(_, _, _, _)
\* the leaf verifier: a response seen for a name is recorded, a response that
\* differs from the recorded one is an inconsistency
Leaf_check_from(p, resp, i, known) ==
    IF i > Len(p.secret_names) THEN <<TRUE, known>>
    ELSE LET s == p.secret_names[i]
         IN  IF s \in DOMAIN known
             THEN IF resp[i] # known[s] THEN <<FALSE, known>>
                  ELSE Leaf_check_from(p, resp, i + 1, known)
             ELSE Leaf_check_from(p, resp, i + 1,
                                  DictUpdate(known, [n \in {s} |-> resp[i]]))

RECURSIVE check_responses_consistency(_, _, _)
RECURSIVE And_check_from(_, _, _, _)
\* the loop of AndProofVerifier.check_responses_consistency from subverifier i
And_check_from(p, responses, i, known) ==
    IF i > Len(p.subproofs) THEN <<TRUE, known>>
    ELSE LET r == check_responses_consistency(p.subproofs[i], responses[i], known)
         IN  IF ~r[1] THEN <<FALSE, r[2]>>
             ELSE And_check_from(p, responses, i + 1, r[2])

\* Verifier.check_responses_consistency, by the class of the verifier:
\* OrVerifier answers True and looks at nothing
check_responses_consistency(p, responses, known) ==
    IF p.kind = "Leaf" THEN Leaf_check_from(p, responses, 1, known)
    ELSE IF p.kind = "Or" THEN <<TRUE, known>>
    ELSE And_check_from(p, responses, 1, known)

(***************************************************************************)
(* State.                                                                  *)
(*   pc          the stage of the run                                      *)
(*   call        the last operation invoked, with its arguments            *)
(*   proof       the proof tree (the statement)                            *)
(*   secrets     the secrets dict handed to get_prover                     *)
(*   prover      the prover tree                                           *)
(*   chosen_idx  the branch OrProof.get_prover has drawn                   *)
(*   redraws     the number of redraws of that loop (saturating)           *)
(*   commitment  the commitment the prover sent                            *)
(*   challenge   the challenge of the session                              *)
(*   response    the response the prover sent                              *)
(*   verdict     what the verifier found                                   *)
(*   err         the exception the last operation raised, or "none"        *)
(*   or_challenges   the attribute or_challenges of the OrProof nodes      *)
(*   responses_dict  the default responses_dict of                         *)
(*                   check_responses_consistency, one object per process   *)
(*   again       the outcome of a repeated recompute_commitment            *)
(*   calls       the concurrent calls of recompute_commitment under way    *)
(***************************************************************************)
VARIABLES pc, call, proof, secrets, prover, chosen_idx, redraws,
          commitment, challenge, response, verdict, err,
          or_challenges, responses_dict, again, calls

vars == <<pc, call, proof, secrets, prover, chosen_idx, redraws,
          commitment, challenge, response, verdict, err,
          or_challenges, responses_dict, again, calls>>

\* no concurrent call of recompute_commitment is under way
NoCalls == <<>>

\* the state of a process in which no verification ran yet
FreshVerifier ==
    /\ or_challenges = NoOrChallenges
    /\ responses_dict = EmptyDict
    /\ again = Raise("not run")
    /\ calls = NoCalls

NoVerdict == [consistent |-> FALSE, recomputed |-> Raise("not run")]

\* the state before anything is constructed
InitBuild ==
    /\ pc = "new"
    /\ call = NoCall
    /\ proof = NoProof
    /\ secrets = EmptyDict
    /\ prover = NoProof
    /\ chosen_idx = 0
    /\ redraws = 0
    /\ commitment = <<>>
    /\ challenge = 0
    /\ response = <<>>
    /\ verdict = NoVerdict
    /\ err = "none"
    /\ FreshVerifier

\* the effect of a constructor call with outcome r
Built(op, args, r) ==
    /\ call' = [op |-> op, args |-> args]
    /\ proof' = IF r.err = "none" THEN r.val ELSE NoProof
    /\ err' = r.err
    /\ pc' = IF r.err = "none" THEN "built" ELSE "raised"
    /\ UNCHANGED <<secrets, prover, chosen_idx, redraws, commitment, challenge,
                   response, verdict>>
    /\ UNCHANGED <<or_challenges, responses_dict, again, calls>>

\* a call AndProof(*args)
AndProofNew ==
    /\ pc = "new"
    /\ \E args \in BuildArgs : Built("AndProof", args, AndProof(args))

\* a call OrProof(*args)
OrProofNew ==
    /\ pc = "new"
    /\ \E args \in BuildArgs : Built("OrProof", args, OrProof(args))

NextBuild == AndProofNew \/ OrProofNew

SpecBuild == InitBuild /\ [][NextBuild]_vars

(***************************************************************************)
(* Sessions: get_prover, commit, challenge, compute_response, verification.*)
(***************************************************************************)
\* the proof trees sessions are run on
SessionProofs == UNION {ProofsOfSize(n) : n \in 2 .. MaxSessionNodes}

\* the secrets dicts handed to get_prover: the true secrets of some of the names
SecretDicts == {[n \in S |-> TrueSecret(n)] : S \in SUBSET SecretNames}

\* a proof tree has been built and nothing was done with it
InitSession ==
    /\ pc = "built"
    /\ call = NoCall
    /\ proof \in SessionProofs
    /\ secrets = EmptyDict
    /\ prover = NoProof
    /\ chosen_idx = 0
    /\ redraws = 0
    /\ commitment = <<>>
    /\ challenge = 0
    /\ response = <<>>
    /\ verdict = NoVerdict
    /\ err = "none"
    /\ FreshVerifier

Op(name) == [op |-> name, args |-> <<>>]

\* set_simulate() on the root, on one of its subproofs, or on a subproof of one
\* of these
SetSimulate ==
    /\ pc = "built"
    /\ \/ proof' = set_simulate(proof)
       \/ \E i \in DOMAIN proof.subproofs :
             proof' = [proof EXCEPT !.subproofs[i] = set_simulate(@)]
       \/ \E i \in DOMAIN proof.subproofs :
             \E j \in DOMAIN proof.subproofs[i].subproofs :
                proof' = [proof EXCEPT !.subproofs[i].subproofs[j] = set_simulate(@)]
    /\ UNCHANGED <<pc, call, secrets, prover, chosen_idx, redraws, commitment,
                   challenge, response, verdict, err>>
    /\ UNCHANGED <<or_challenges, responses_dict, again, calls>>

\* the call returned prover r.val, or raised r.err
Returned(r) ==
    /\ prover' = IF r.err = "none" THEN r.val ELSE NoProof
    /\ err' = r.err
    /\ pc' = IF r.err = "none" THEN "prover" ELSE "raised"

\* get_prover(secrets_dict) on an AndProof root.  A nested OrProof.get_prover
\* that has no provable candidate never returns: the run stays in its loop.
AndGetProver ==
    /\ pc = "built"
    /\ proof.kind = "And"
    /\ \E d \in SecretDicts : \E r \in get_prover(proof, d) :
          /\ secrets' = d
          /\ call' = Op("get_prover")
          /\ IF r.err = "diverges"
             THEN /\ pc' = "drawn_nested"
                  /\ UNCHANGED <<prover, err>>
             ELSE Returned(r)
    /\ UNCHANGED <<proof, chosen_idx, redraws, commitment, challenge, response,
                   verdict>>
    /\ UNCHANGED <<or_challenges, responses_dict, again, calls>>

\* get_prover(secrets_dict) on an OrProof root, up to the first draw
OrGetProver ==
    /\ pc = "built"
    /\ proof.kind = "Or"
    /\ \E d \in SecretDicts :
          /\ secrets' = d
          /\ call' = Op("get_prover")
          /\ IF proof.simulate \/ d = EmptyDict
             THEN /\ Returned(Ok(get_simulator(proof)))
                  /\ UNCHANGED chosen_idx
             ELSE IF Possible(proof) = {}
             THEN /\ Returned(Raise("IndexError"))
                  /\ UNCHANGED chosen_idx
             ELSE /\ chosen_idx' \in Possible(proof)
                  /\ pc' = "drawn"
                  /\ UNCHANGED <<prover, err>>
    /\ UNCHANGED <<proof, redraws, commitment, challenge, response, verdict>>
    /\ UNCHANGED <<or_challenges, responses_dict, again, calls>>

\* one more redraw, counted up to MaxRedraws
OneMoreRedraw == IF redraws < MaxRedraws THEN redraws + 1 ELSE redraws

\* one turn of the while loop of OrProof.get_prover: the drawn branch lacks a
\* secret and another index is drawn
Redraw ==
    /\ pc = "drawn"
    /\ MustRedraw(proof, chosen_idx, DOMAIN secrets)
    /\ chosen_idx' \in Possible(proof)
    /\ redraws' = OneMoreRedraw
    /\ UNCHANGED <<pc, call, proof, secrets, prover, commitment, challenge,
                   response, verdict, err>>
    /\ UNCHANGED <<or_challenges, responses_dict, again, calls>>

\* one turn of the same loop in an OrProof below the root, none of whose
\* candidates is provable
RedrawNested ==
    /\ pc = "drawn_nested"
    /\ redraws' = OneMoreRedraw
    /\ UNCHANGED <<pc, call, proof, secrets, prover, chosen_idx, commitment,
                   challenge, response, verdict, err>>
    /\ UNCHANGED <<or_challenges, responses_dict, again, calls>>

\* the loop has ended on chosen_idx: the rest of OrProof.get_prover
OrGetProverFinish ==
    /\ pc = "drawn"
    /\ ~MustRedraw(proof, chosen_idx, DOMAIN secrets)
    /\ \E r \in OrProof_finish(proof, chosen_idx, secrets) :
          IF r.err = "diverges"
          THEN /\ pc' = "drawn_nested"
               /\ UNCHANGED <<prover, err>>
          ELSE Returned(r)
    /\ UNCHANGED <<call, proof, secrets, chosen_idx, redraws, commitment, challenge,
                   response, verdict>>
    /\ UNCHANGED <<or_challenges, responses_dict, again, calls>>

\* prover.commit()
Commit ==
    /\ pc = "prover"
    /\ \E o \in commit(prover, NoneArg) :
          /\ prover' = o.st
          /\ commitment' = o.val
          /\ err' = o.err
          /\ pc' = IF o.err = "none" THEN "committed" ELSE "raised"
    /\ call' = Op("commit")
    /\ UNCHANGED <<proof, secrets, chosen_idx, redraws, challenge, response, verdict>>
    /\ UNCHANGED <<or_challenges, responses_dict, again, calls>>

\* the verifier draws the challenge
SendChallenge ==
    /\ pc = "committed"
    /\ challenge' \in Challenges
    /\ pc' = "challenged"
    /\ call' = Op("send_challenge")
    /\ UNCHANGED <<proof, secrets, prover, chosen_idx, redraws, commitment, response,
                   verdict, err>>
    /\ UNCHANGED <<or_challenges, responses_dict, again, calls>>

\* prover.compute_response(challenge)
ComputeResponse ==
    /\ pc = "challenged"
    /\ LET r == compute_response(prover, challenge)
       IN  /\ response' = r.val
           /\ err' = r.err
           /\ pc' = IF r.err = "none" THEN "responded" ELSE "raised"
    /\ call' = Op("compute_response")
    /\ UNCHANGED <<proof, secrets, prover, chosen_idx, redraws, commitment, challenge,
                   verdict>>
    /\ UNCHANGED <<or_challenges, responses_dict, again, calls>>

\* the verifier checks the consistency of the responses, handing no
\* responses_dict, and recomputes the commitment
Verify ==
    /\ pc \in {"responded", "simulated"}
    /\ LET checked == check_responses_consistency(proof, response, responses_dict)
           r == recompute_in(proof, challenge, response, <<>>, or_challenges)
       IN  /\ verdict' = [consistent |-> checked[1], recomputed |-> Result(r)]
           /\ responses_dict' = checked[2]
           /\ or_challenges' = r.oc
    /\ pc' = "verified"
    /\ UNCHANGED <<again, calls>>
    /\ UNCHANGED <<call, proof, secrets, prover, chosen_idx, redraws, commitment,
                   challenge, response, err>>

\* the verifier accepts: consistent responses and the commitment recomputed
Accepted ==
    /\ verdict.consistent
    /\ verdict.recomputed.err = "none"
    /\ verdict.recomputed.val = commitment

NextSession ==
    \/ AndGetProver
    \/ OrGetProver
    \/ Redraw
    \/ OrGetProverFinish
    \/ Commit
    \/ SendChallenge
    \/ ComputeResponse
    \/ Verify

SpecSession == InitSession /\ [][NextSession]_vars

\* sessions on the trees one node larger than those of SpecSession
InitDeep ==
    /\ pc = "built"
    /\ call = NoCall
    /\ proof \in ProofsOfSize(MaxSessionNodes + 1)
    /\ secrets = EmptyDict
    /\ prover = NoProof
    /\ chosen_idx = 0
    /\ redraws = 0
    /\ commitment = <<>>
    /\ challenge = 0
    /\ response = <<>>
    /\ verdict = NoVerdict
    /\ err = "none"
    /\ FreshVerifier

SpecDeep == InitDeep /\ [][NextSession]_vars

(***************************************************************************)
(* get_prover alone, on trees with simulate flags.                         *)
(***************************************************************************)
\* the proof trees get_prover is explored on
ProverProofs == UNION {ProofsOfSize(n) : n \in 2 .. (MaxSessionNodes + 1)}

InitProver ==
    /\ pc = "built"
    /\ call = NoCall
    /\ proof \in ProverProofs
    /\ secrets = EmptyDict
    /\ prover = NoProof
    /\ chosen_idx = 0
    /\ redraws = 0
    /\ commitment = <<>>
    /\ challenge = 0
    /\ response = <<>>
    /\ verdict = NoVerdict
    /\ err = "none"
    /\ FreshVerifier

NextProver ==
    \/ SetSimulate
    \/ AndGetProver
    \/ OrGetProver
    \/ Redraw
    \/ RedrawNested
    \/ OrGetProverFinish

SpecProver == InitProver /\ [][NextProver]_vars

(***************************************************************************)
(* Vocabulary of the claims about construction.                            *)
(***************************************************************************)
RECURSIVE OrNodes(_)
\* the OrProof nodes of the subtree of p, p included
OrNodes(p) ==
    (IF p.kind = "Or" THEN {p} ELSE {})
        \cup UNION {OrNodes(p.subproofs[i]) : i \in DOMAIN p.subproofs}

\* a name occurs inside an OrProof below one subproof and in another subproof
CrossesOrBoundary(subs) ==
    \E i \in DOMAIN subs, j \in DOMAIN subs :
        /\ i # j
        /\ \E o \in OrNodes(subs[i]) : Names(o) \cap Names(subs[j]) # {}

RECURSIVE HasOrFlaw(_)
\* some AndProof of the tree has a name inside an OrProof of its subtree and in a
\* sibling scope of that OrProof
HasOrFlaw(p) ==
    \/ p.kind = "And" /\ CrossesOrBoundary(p.subproofs)
    \/ \E i \in DOMAIN p.subproofs : HasOrFlaw(p.subproofs[i])

\* two branches of one OrProof use the same name
SharedBetweenBranches(subs) ==
    \E i \in DOMAIN subs, j \in DOMAIN subs :
        i # j /\ Names(subs[i]) \cap Names(subs[j]) # {}

\* the subproofs the last constructor call handed to the node
CallSubproofs == list_subproofs(call.args)

C5_SiblingBranchesRejected ==
    ( \/ call.op = "OrProof" /\ SharedBetweenBranches(CallSubproofs)
      \/ /\ call.op = "AndProof"
         /\ \E i \in DOMAIN CallSubproofs :
               /\ CallSubproofs[i].kind = "Or"
               /\ SharedBetweenBranches(CallSubproofs[i].subproofs) )
        => pc = "raised"

(***************************************************************************)
(* Vocabulary of the claims about get_prover.                              *)
(***************************************************************************)
RECURSIVE SimulationOnly(_)
\* no prover of the subtree holds a secret and no OrProver has a real branch
SimulationOnly(pr) ==
    /\ pr.secret_values = EmptyDict
    /\ pr.true_prover = 0
    /\ \A i \in DOMAIN pr.subs : SimulationOnly(pr.subs[i])

RECURSIVE OrProvers(_)
\* the OrProver nodes of a prover tree, the root included
OrProvers(pr) ==
    (IF pr.kind = "Or" THEN {pr} ELSE {})
        \cup UNION {OrProvers(pr.subs[i]) : i \in DOMAIN pr.subs}

\* OrProver q holds one subprover per subproof, in order; exactly one of them is
\* real; it stands at true_prover, its branch is not flagged and has all its
\* names among the secrets, of which it holds its own; the others only simulate
ExactlyOneReal(q) ==
    /\ Len(q.subs) = Len(q.proof.subproofs)
    /\ \A i \in DOMAIN q.subs : q.subs[i].proof = q.proof.subproofs[i]
    /\ Cardinality({i \in DOMAIN q.subs : ~SimulationOnly(q.subs[i])}) = 1
    /\ q.true_prover \in DOMAIN q.subs
    /\ LET branch == q.proof.subproofs[q.true_prover]
           real == q.subs[q.true_prover]
       IN  /\ ~SimulationOnly(real)
           /\ ~branch.simulate
           /\ Names(branch) \subseteq DOMAIN q.secret_values
           /\ real.secret_values = SubDict(q.secret_values, Names(branch))

\* C6: OrProof.get_prover with non-empty secrets on a node not flagged simulate
\* ends when no candidate is provable: the redraws stay within the number of
\* candidates, after which the call has failed.
C6_RedrawsBounded ==
    (/\ pc = "drawn"
     /\ ~proof.simulate
     /\ secrets # EmptyDict
     /\ Provable(proof, DOMAIN secrets) = {})
        => redraws <= Cardinality(Possible(proof))

\* C7 as stated: whenever OrProof.get_prover returns for non-empty secrets, the
\* OrProver has exactly one real branch, the chosen one.
C7_Original ==
    (pc = "prover" /\ proof.kind = "Or" /\ secrets # EmptyDict)
        => (ExactlyOneReal(prover) /\ prover.true_prover = chosen_idx)

\* C7 (amended): whenever OrProof.get_prover returns for non-empty secrets on a
\* node that is not flagged simulate, at the root or below it, the OrProver has
\* exactly one real branch, the chosen one; every other subprover only simulates.
C7_ExactlyOneReal ==
    pc = "prover" =>
        /\ \A q \in OrProvers(prover) :
              (q.secret_values # EmptyDict /\ ~q.proof.simulate) => ExactlyOneReal(q)
        /\ (proof.kind = "Or" /\ secrets # EmptyDict /\ ~proof.simulate)
              => prover.true_prover = chosen_idx

\* get_prover returned an OrProver whose real branch is the second one, the
\* first draw having been redrawn
C7_Witness ==
    /\ pc = "prover"
    /\ proof.kind = "Or"
    /\ ~proof.simulate
    /\ secrets # EmptyDict
    /\ Len(prover.subs) >= 2
    /\ prover.true_prover = 2
    /\ redraws > 0

(***************************************************************************)
(* Simulation: get_simulator, simulate_proof(challenge=c), verification.   *)
(***************************************************************************)
\* proof.get_simulator()
GetSimulator ==
    /\ pc = "built"
    /\ prover' = get_simulator(proof)
    /\ pc' = "prover"
    /\ call' = Op("get_simulator")
    /\ UNCHANGED <<proof, secrets, chosen_idx, redraws, commitment, challenge,
                   response, verdict, err>>
    /\ UNCHANGED <<or_challenges, responses_dict, again, calls>>

\* simulator.simulate_proof(challenge=c): the transcript, or the exception
SimulateProof ==
    /\ pc = "prover"
    /\ call.op = "get_simulator"
    /\ \E c \in Challenges :
          \E o \in simulate_proof(prover, NoneArg, Some(c)) :
             /\ challenge' = IF o.err = "none" THEN o.val[2] ELSE c
             /\ commitment' = IF o.err = "none" THEN o.val[1] ELSE <<>>
             /\ response' = IF o.err = "none" THEN o.val[3] ELSE <<>>
             /\ err' = o.err
             /\ pc' = IF o.err = "none" THEN "simulated" ELSE "raised"
             /\ call' = [op |-> "simulate_proof", args |-> <<c>>]
    /\ UNCHANGED <<proof, secrets, prover, chosen_idx, redraws, verdict>>
    /\ UNCHANGED <<or_challenges, responses_dict, again, calls>>

NextSim == GetSimulator \/ SimulateProof \/ Verify

SpecSim == InitSession /\ [][NextSim]_vars

(***************************************************************************)
(* The verifier's side alone: OrProof.recompute_commitment on a received   *)
(* challenge and response.                                                 *)
(***************************************************************************)
\* the branch challenges a response can carry: a residual challenge lies in
\* (-2^L, 0], a drawn one in [0, 2^L)
BranchChallenges == (1 - Pow2(CHAL_LENGTH)) .. (Pow2(CHAL_LENGTH) - 1)

RECURSIVE Tuples(_, _, _)
\* the sequences whose i-th element is drawn from f[i], from index i on
Tuples(f, n, i) ==
    IF i > n THEN {<<>>}
    ELSE {<<h>> \o t : h \in f[i], t \in Tuples(f, n, i + 1)}

RECURSIVE ResponsesOver(_, _, _)
\* the responses that have the shape of proof p: one scalar per secret name of a
\* leaf, one response per subproof of an AND, and for an OR the pair of one
\* challenge per branch and one response per branch
ResponsesOver(p, scalars, chals) ==
    IF p.kind = "Leaf" THEN [DOMAIN p.secret_names -> scalars]
    ELSE LET n == Len(p.subproofs)
             subs == Tuples([i \in 1 .. n |->
                                ResponsesOver(p.subproofs[i], scalars, chals)], n, 1)
         IN  IF p.kind = "And" THEN subs
             ELSE {<<cs, resps>> : cs \in [1 .. n -> chals], resps \in subs}

\* the responses a verifier of p can receive
Responses(p) == ResponsesOver(p, Scalars, BranchChallenges)

\* the verifier of an OrProof holds a challenge and has received a response
InitVerify ==
    /\ pc = "received"
    /\ call = NoCall
    /\ proof \in {p \in SessionProofs : p.kind = "Or"}
    /\ secrets = EmptyDict
    /\ prover = NoProof
    /\ chosen_idx = 0
    /\ redraws = 0
    /\ commitment = <<>>
    /\ challenge \in Challenges
    /\ response \in Responses(proof)
    /\ verdict = NoVerdict
    /\ err = "none"
    /\ FreshVerifier

\* proof.recompute_commitment(challenge, response)
RecomputeCommitment ==
    /\ pc = "received"
    /\ LET r == recompute_in(proof, challenge, response, <<>>, or_challenges)
       IN  /\ verdict' = [consistent |-> FALSE, recomputed |-> Result(r)]
           /\ err' = r.err
           /\ or_challenges' = r.oc
    /\ pc' = "recomputed"
    /\ UNCHANGED <<responses_dict, again, calls>>
    /\ call' = Op("recompute_commitment")
    /\ UNCHANGED <<proof, secrets, prover, chosen_idx, redraws, commitment, challenge,
                   response>>

NextVerify == RecomputeCommitment

SpecVerify == InitVerify /\ [][NextVerify]_vars

(***************************************************************************)
(* Two verification sessions call recompute_commitment on one OrProof, the *)
(* statement they share, and their steps interleave.  A call made inside a *)
(* branch is taken as one step.                                            *)
(***************************************************************************)
Callers == {1, 2}

\* the arguments of the concurrent calls: any challenge, any branch challenges
\* in [0, 2^L), leaf responses 0
CallerArgs(p) ==
    {[challenge |-> c, response |-> r] :
        c \in Challenges, r \in ResponsesOver(p, {0}, Challenges)}

\* a call that has not run its first statement
NewCall(a) ==
    [pc |-> "called", challenge |-> a.challenge, response |-> a.response,
     i |-> 1, comm |-> <<>>, outcome |-> Raise("not run")]

InitShared ==
    /\ pc = "shared"
    /\ call = Op("recompute_commitment")
    /\ proof \in {p \in SessionProofs : p.kind = "Or"}
    /\ secrets = EmptyDict
    /\ prover = NoProof
    /\ chosen_idx = 0
    /\ redraws = 0
    /\ commitment = <<>>
    /\ challenge = 0
    /\ response = <<>>
    /\ verdict = NoVerdict
    /\ err = "none"
    /\ or_challenges = NoOrChallenges
    /\ responses_dict = EmptyDict
    /\ again = Raise("not run")
    /\ calls \in [Callers -> {NewCall(a) : a \in CallerArgs(proof)}]

\* what a step of a concurrent call leaves alone
SharedFrame ==
    UNCHANGED <<pc, call, proof, secrets, prover, chosen_idx, redraws, commitment,
                challenge, response, verdict, err, responses_dict, again>>

\* self.or_challenges = responses[0]
StoreChallenges ==
    \E t \in Callers :
        /\ calls[t].pc = "called"
        /\ or_challenges' = StoreOrChallenges(or_challenges, <<>>, calls[t].response[1])
        /\ calls' = [calls EXCEPT ![t].pc = "stored"]
        /\ SharedFrame

\* the test of find_residual_chal(self.or_challenges, challenge, CHAL_LENGTH)
CheckChallenges ==
    \E t \in Callers :
        /\ calls[t].pc = "stored"
        /\ calls' = IF find_residual_chal(or_challenges[<<>>], calls[t].challenge,
                                          CHAL_LENGTH) # 0
                    THEN [calls EXCEPT ![t].pc = "done",
                                       ![t].outcome = Raise("Inconsistent challenge")]
                    ELSE [calls EXCEPT ![t].pc = "loop"]
        /\ UNCHANGED or_challenges
        /\ SharedFrame

\* one turn of the loop:
\* comm.append(cur_proof.recompute_commitment(self.or_challenges[i], responses[i]))
RecomputeBranch ==
    \E t \in Callers :
        /\ calls[t].pc = "loop"
        /\ calls[t].i <= Len(proof.subproofs)
        /\ LET i == calls[t].i
               r == recompute_in(proof.subproofs[i], or_challenges[<<>>][i],
                                 calls[t].response[2][i], <<i>>, or_challenges)
           IN  /\ or_challenges' = r.oc
               /\ calls' = IF r.err # "none"
                           THEN [calls EXCEPT ![t].pc = "done", ![t].outcome = Result(r)]
                           ELSE [calls EXCEPT ![t].i = i + 1,
                                              ![t].comm = Append(@, r.val)]
        /\ SharedFrame

\* return comm
ReturnCommitment ==
    \E t \in Callers :
        /\ calls[t].pc = "loop"
        /\ calls[t].i > Len(proof.subproofs)
        /\ calls' = [calls EXCEPT ![t].pc = "done", ![t].outcome = Ok(calls[t].comm)]
        /\ UNCHANGED or_challenges
        /\ SharedFrame

NextShared == StoreChallenges \/ CheckChallenges \/ RecomputeBranch \/ ReturnCommitment

SpecShared == InitShared /\ [][NextShared]_vars

(***************************************************************************)
(* One verifier calls recompute_commitment on a tree again and again.      *)
(***************************************************************************)
\* the arguments of the repeated calls: any challenge, branch challenges 0
\* and 1, leaf responses 0
RepeatArgs(p) ==
    {[challenge |-> c, response |-> r] :
        c \in Challenges, r \in ResponsesOver(p, {0}, {0, 1})}

InitRepeat ==
    /\ pc = "received"
    /\ call = NoCall
    /\ proof \in SessionProofs
    /\ secrets = EmptyDict
    /\ prover = NoProof
    /\ chosen_idx = 0
    /\ redraws = 0
    /\ commitment = <<>>
    /\ \E a \in RepeatArgs(proof) : challenge = a.challenge /\ response = a.response
    /\ verdict = NoVerdict
    /\ err = "none"
    /\ FreshVerifier

\* proof.recompute_commitment on another challenge and response: one such call
\* before the first call on (challenge, response), one between the two
RecomputeOther ==
    /\ \/ pc = "received" /\ call = NoCall
       \/ pc = "recomputed" /\ call.args = <<>>
    /\ \E a \in RepeatArgs(proof) :
          /\ <<a.challenge, a.response>> # <<challenge, response>>
          /\ or_challenges' =
                recompute_in(proof, a.challenge, a.response, <<>>, or_challenges).oc
          /\ call' = [op |-> "recompute_commitment",
                      args |-> <<a.challenge, a.response>>]
    /\ UNCHANGED <<pc, proof, secrets, prover, chosen_idx, redraws, commitment,
                   challenge, response, verdict, err, responses_dict, again, calls>>

\* proof.recompute_commitment(challenge, response) once more
RecomputeAgain ==
    /\ pc = "recomputed"
    /\ LET r == recompute_in(proof, challenge, response, <<>>, or_challenges)
       IN  /\ again' = Result(r)
           /\ or_challenges' = r.oc
    /\ pc' = "repeated"
    /\ UNCHANGED <<call, proof, secrets, prover, chosen_idx, redraws, commitment,
                   challenge, response, verdict, err, responses_dict, calls>>

NextRepeat == RecomputeCommitment \/ RecomputeOther \/ RecomputeAgain

SpecRepeat == InitRepeat /\ [][NextRepeat]_vars

(***************************************************************************)
(* Sessions in which the prover commits a second time before the challenge.*)
(***************************************************************************)
\* prover.commit() once more
Recommit ==
    /\ pc = "committed"
    /\ call.args = <<>>
    /\ \E o \in commit(prover, NoneArg) :
          /\ prover' = o.st
          /\ commitment' = o.val
          /\ err' = o.err
          /\ pc' = IF o.err = "none" THEN "committed" ELSE "raised"
    /\ call' = [op |-> "commit", args |-> <<"again">>]
    /\ UNCHANGED <<proof, secrets, chosen_idx, redraws, challenge, response, verdict>>
    /\ UNCHANGED <<or_challenges, responses_dict, again, calls>>

NextRecommit ==
    \/ AndGetProver
    \/ OrGetProver
    \/ Redraw
    \/ OrGetProverFinish
    \/ Commit
    \/ Recommit
    \/ SendChallenge
    \/ ComputeResponse

SpecRecommit == InitSession /\ [][NextRecommit]_vars

(***************************************************************************)
(* AndProofProver.commit with a randomizers dict supplied by the caller.   *)
(***************************************************************************)
\* the dicts a caller can supply: a randomizer for some of the names
SuppliedDicts == UNION {Dicts(S, Scalars) : S \in SUBSET SecretNames}

\* the caller's dict as the call leaves it: the merged dict is a new object to
\* which the local name is rebound, the argument is only read
randomizers_after(randomizers_dict) == randomizers_dict

\* prover.commit(randomizers_dict) on an AndProofProver
CommitWith ==
    /\ pc = "prover"
    /\ prover.kind = "And"
    /\ \E d \in SuppliedDicts :
          \E o \in AndProofProver_commit(prover, Some(d)) :
             /\ prover' = o.st
             /\ commitment' = o.val
             /\ err' = o.err
             /\ pc' = IF o.err = "none" THEN "committed" ELSE "raised"
             /\ call' = [op |-> "commit", args |-> <<d, randomizers_after(d)>>]
    /\ UNCHANGED <<proof, secrets, chosen_idx, redraws, challenge, response, verdict>>
    /\ UNCHANGED <<or_challenges, responses_dict, again, calls>>

NextCommitWith == AndGetProver \/ CommitWith

SpecCommitWith == InitSession /\ [][NextCommitWith]_vars

(***************************************************************************)
(* Consistency checks of AndProofVerifiers in one process: every call made *)
(* without a responses_dict gets the one default object.                   *)
(***************************************************************************)
AndProofs == {p \in SessionProofs : p.kind = "And"}

\* a verifier of an AndProof has received a response
InitChecks ==
    /\ pc = "received"
    /\ call = NoCall
    /\ proof \in AndProofs
    /\ secrets = EmptyDict
    /\ prover = NoProof
    /\ chosen_idx = 0
    /\ redraws = 0
    /\ commitment = <<>>
    /\ challenge = 0
    /\ response \in Responses(proof)
    /\ verdict = NoVerdict
    /\ err = "none"
    /\ FreshVerifier

\* an earlier check_responses_consistency(responses) of some AndProofVerifier
\* on other responses
CheckEarlier ==
    /\ pc = "received"
    /\ \E p \in AndProofs : \E r \in Responses(p) :
          responses_dict' = check_responses_consistency(p, r, responses_dict)[2]
    /\ call' = Op("check_responses_consistency")
    /\ UNCHANGED <<pc, proof, secrets, prover, chosen_idx, redraws, commitment,
                   challenge, response, verdict, err, or_challenges, again, calls>>

\* check_responses_consistency(response) of the verifier of proof
CheckConsistency ==
    /\ pc = "received"
    /\ LET checked == check_responses_consistency(proof, response, responses_dict)
       IN  /\ verdict' = [verdict EXCEPT !.consistent = checked[1]]
           /\ responses_dict' = checked[2]
    /\ pc' = "checked"
    /\ UNCHANGED <<call, proof, secrets, prover, chosen_idx, redraws, commitment,
                   challenge, response, err, or_challenges, again, calls>>

NextChecks == CheckEarlier \/ CheckConsistency

SpecChecks == InitChecks /\ [][NextChecks]_vars

(***************************************************************************)
(* Vocabulary of the claims about sessions.                                *)
(***************************************************************************)
RECURSIVE Satisfies(_, _)
\* the secrets named in keys satisfy the statement: every child of an AND is
\* satisfied, and an OR has a satisfied branch all of whose secrets are known
Satisfies(p, keys) ==
    IF p.kind = "Leaf" THEN Names(p) \subseteq keys
    ELSE IF p.kind = "And"
    THEN \A i \in DOMAIN p.subproofs : Satisfies(p.subproofs[i], keys)
    ELSE \E i \in DOMAIN p.subproofs :
            Names(p.subproofs[i]) \subseteq keys /\ Satisfies(p.subproofs[i], keys)

\* every OR of the tree has a branch all of whose secrets are known
EveryOrHasBranch(p, keys) ==
    \A o \in OrNodes(p) : \E i \in DOMAIN o.subproofs : Names(o.subproofs[i]) \subseteq keys

RECURSIVE SumSeq(_, _)
\* the plain sum of a sequence of integers from index i on
SumSeq(seq, i) == IF i > Len(seq) THEN 0 ELSE seq[i] + SumSeq(seq, i + 1)

Modulus == Pow2(CHAL_LENGTH)

\* the branch challenges sum to chal modulo 2^L
SumsTo(branch_challenges, chal) ==
    SumSeq(branch_challenges, 1) % Modulus = chal % Modulus

RECURSIVE Conserved(_, _, _)
\* in the response resp of prover pr to chal, the branch challenges of every
\* OrProver on the real path sum to the challenge that OrProver received
Conserved(pr, chal, resp) ==
    IF pr.kind = "Leaf" THEN TRUE
    ELSE IF pr.kind = "And"
    THEN \A i \in DOMAIN pr.subs : Conserved(pr.subs[i], chal, resp[i])
    ELSE /\ Len(resp[1]) = Len(pr.subs)
         /\ SumsTo(resp[1], chal)
         /\ Conserved(pr.subs[pr.true_prover], resp[1][pr.true_prover],
                      resp[2][pr.true_prover])

\* C1: with secrets that satisfy the statement, get_prover returns a prover,
\* commit and compute_response return, and the verifier accepts, whatever the
\* challenge.
C1_Completeness ==
    (/\ call.op # "none"
     /\ Satisfies(proof, DOMAIN secrets)
     /\ EveryOrHasBranch(proof, DOMAIN secrets))
        => /\ pc \notin {"raised", "drawn_nested"}
           /\ pc = "verified" => Accepted

\* C2: after commit() and compute_response(c) on a prover whose OrProvers have a
\* real branch, the returned branch challenges of each of them sum, modulo 2^L,
\* to the challenge it received.
C2_ChallengeConservation ==
    (pc = "responded" /\ call.op = "compute_response")
        => Conserved(prover, challenge, response)

\* an OrProver root answered a non-zero challenge with its second branch real and
\* a non-zero simulated challenge on the first
C2_Witness ==
    /\ pc = "responded"
    /\ prover.kind = "Or"
    /\ Len(prover.subs) >= 2
    /\ prover.true_prover = 2
    /\ challenge # 0
    /\ response[1][1] # 0
    /\ response[1][2] # 0

\* the branch-challenge vector v is one OrProver.compute_response(chal) can
\* return when branch j is the real one: the other challenges are drawn
\* challenges and v[j] is their residual
ReturnableWith(v, j, chal) ==
    /\ \A k \in DOMAIN v : k # j => v[k] \in Challenges
    /\ LET others == [k \in 1 .. (Len(v) - 1) |-> IF k < j THEN v[k] ELSE v[k + 1]]
       IN  v[j] = find_residual_chal(others, chal, CHAL_LENGTH)

\* C8: when several branches of an OrProof are provable, the branch-challenge
\* vector returned after commit() and compute_response(c) is one that could be
\* returned with any other provable branch as the real one.
C8_BranchHiding ==
    (/\ pc = "responded"
     /\ prover.kind = "Or"
     /\ prover.true_prover # 0)
        => \A j \in Provable(proof, DOMAIN secrets) :
              ReturnableWith(response[1], j, challenge)

RECURSIVE CommittedLeaves(_)
\* the leaf provers of the subtree that have committed (they hold randomizers)
CommittedLeaves(pr) ==
    IF pr.kind = "Leaf" THEN (IF pr.ks # <<>> THEN {pr} ELSE {})
    ELSE UNION {CommittedLeaves(pr.subs[i]) : i \in DOMAIN pr.subs}

RECURSIVE AndLeaves(_)
\* the leaf provers an AndProofProver reaches through AndProofProvers alone
AndLeaves(pr) ==
    IF pr.kind = "Leaf" THEN {pr}
    ELSE IF pr.kind = "And" THEN UNION {AndLeaves(pr.subs[i]) : i \in DOMAIN pr.subs}
    ELSE {}

RECURSIVE AndProvers(_)
\* the AndProofProver nodes of a prover tree, the root included
AndProvers(pr) ==
    (IF pr.kind = "And" THEN {pr} ELSE {})
        \cup UNION {AndProvers(pr.subs[i]) : i \in DOMAIN pr.subs}

\* leaves l1 and l2 use the same randomizer wherever they use the same name
SameRandomizers(l1, l2) ==
    \A i \in DOMAIN l1.ks, j \in DOMAIN l2.ks :
        l1.proof.secret_names[i] = l2.proof.secret_names[j] => l1.ks[i] = l2.ks[j]

\* the committed leaves of AndProofProver q took their randomizers from one
\* mapping with one value per unique name of q
OneMapping(q) ==
    \E d \in Dicts(Names(q.proof), Scalars) :
        \A l \in AndLeaves(q) : l.ks # <<>> => l.ks = Along(l.proof, d)

\* C10: after commit(), every AndProofProver of the tree has handed one value
\* per unique SecretName to its subprovers, nested AndProofProvers and their
\* leaves included, and no two committed leaves of its subtree that share a
\* SecretName hold different randomizers for it.
C10_RandomizerSharing ==
    (pc = "committed" /\ call.op = "commit")
        => \A q \in AndProvers(prover) :
              /\ OneMapping(q)
              /\ \A l1 \in CommittedLeaves(q), l2 \in CommittedLeaves(q) :
                    SameRandomizers(l1, l2)

\* an AndProofProver root committed two leaves that share a name, with a
\* non-zero randomizer
C10_Witness ==
    /\ pc = "committed"
    /\ prover.kind = "And"
    /\ \E l1 \in AndLeaves(prover), l2 \in AndLeaves(prover) :
          /\ l1 # l2
          /\ l1.ks # <<>> /\ l2.ks # <<>>
          /\ l1.proof.secret_names = l2.proof.secret_names
          /\ l1.ks[1] # 0

\* C9: simulate_proof(challenge=c) on a simulator returns a transcript for c
\* that the verifier accepts: consistent responses, and a recomputation that
\* does not fail and gives the returned commitment.
C9_Simulation ==
    call.op = "simulate_proof"
        => /\ pc # "raised"
           /\ challenge = call.args[1]
           /\ pc = "verified" => Accepted

\* the result of recomputing branch i of the received response under its own
\* branch challenge
BranchRecomputed(i) ==
    recompute_commitment(proof.subproofs[i], response[1][i], response[2][i])

\* the recomputation failed with the inconsistent-challenge error and returned
\* no commitment
FailedInconsistent == verdict.recomputed = Raise("Inconsistent challenge")

\* the recomputation returned one sub-commitment per branch, branch i
\* recomputed under branch_challenges[i]
ReturnedPerBranch ==
    /\ verdict.recomputed.err = "none"
    /\ Len(verdict.recomputed.val) = Len(proof.subproofs)
    /\ \A i \in DOMAIN proof.subproofs :
          /\ BranchRecomputed(i).err = "none"
          /\ verdict.recomputed.val[i] = BranchRecomputed(i).val

RECURSIVE SameShape(_, _)
\* prover pr has the kind and the tree shape of proof p
SameShape(pr, p) ==
    /\ pr.kind = p.kind
    /\ pr.proof = p
    /\ Len(pr.subs) = Len(p.subproofs)
    /\ \A i \in DOMAIN pr.subs : SameShape(pr.subs[i], p.subproofs[i])

\* C11: get_prover on an AndProof or an OrProof, with an empty secrets mapping
\* or on a node flagged simulate, does not fail and returns a simulation-only
\* prover of the same kind and tree shape.
C11_SimulatorReturned ==
    (call.op = "get_prover" /\ (proof.simulate \/ secrets = EmptyDict))
        => /\ pc = "prover"
           /\ SameShape(prover, proof)
           /\ SimulationOnly(prover)

\* C12: commit() on an OrProver that has no real branch fails with the
\* cannot-commit error and returns no commitment, and no OrProver without a
\* real branch ever caches a simulation.
C12_CannotCommit ==
    /\ prover # NoProof
          => \A q \in OrProvers(prover) : q.true_prover = 0 => q.simulations = <<>>
    /\ (call.op = "commit" /\ prover.kind = "Or" /\ prover.true_prover = 0)
          => /\ pc = "raised"
             /\ err = "cannot commit in a simulator"
             /\ commitment = <<>>

\* commit() was called on a two-branch OrProver built without secrets
C12_Witness ==
    /\ call.op = "commit"
    /\ prover.kind = "Or"
    /\ prover.true_prover = 0
    /\ Len(prover.subs) = 2
    /\ secrets = EmptyDict
    /\ pc = "raised"

\* C13: when two sessions call recompute_commitment on the OrProof they share
\* and their steps interleave, the outcome of each call is the one the call
\* gives when it runs alone on its own challenge and response.
C13_CallsIndependent ==
    pc = "shared"
        => \A t \in Callers :
              calls[t].pc = "done"
                  => calls[t].outcome =
                        recompute_commitment(proof, calls[t].challenge, calls[t].response)

\* C14: recompute_commitment called twice on the same tree with the same
\* challenge and response gives the same outcome both times, whatever calls on
\* other arguments were made before or in between.
C14_Idempotent ==
    pc = "repeated" => again = verdict.recomputed

\* a two-branch OrProof was recomputed twice, successfully, with a call on other
\* branch challenges in between
C14_Witness ==
    /\ pc = "repeated"
    /\ proof.kind = "Or"
    /\ Len(proof.subproofs) = 2
    /\ call.args # <<>>
    /\ call.args[2][1] # response[1]
    /\ again.err = "none"

RECURSIVE BranchChallengesOf(_, _)
\* the branch challenges that occur in response resp to proof p, those of the
\* nested OrProofs included
BranchChallengesOf(p, resp) ==
    IF p.kind = "Leaf" THEN {}
    ELSE IF p.kind = "And"
    THEN UNION {BranchChallengesOf(p.subproofs[i], resp[i]) : i \in DOMAIN p.subproofs}
    ELSE Range(resp[1])
            \cup UNION {BranchChallengesOf(p.subproofs[i], resp[2][i]) :
                        i \in DOMAIN p.subproofs}

\* C15: every branch challenge an OR node produces, in compute_response and in
\* simulate_proof, is a non-negative integer smaller than 2^L.
C15_ChallengeRange ==
    pc \in {"responded", "simulated"}
        => BranchChallengesOf(proof, response) \subseteq Challenges

\* C16: when compute_response runs after one or more commits on an OrProver,
\* simulations holds one triple per non-real branch, and the challenge and the
\* response returned for a non-real branch are those of the triple whose
\* commitment stands at that branch in the commitment of the last commit.
C16_SimulationsMatchCommitment ==
    (pc = "responded" /\ prover.kind = "Or")
        => /\ Len(prover.simulations) = Len(prover.subs) - 1
           /\ \A i \in DOMAIN prover.subs :
                 i # prover.true_prover
                     => \E k \in DOMAIN prover.simulations :
                           prover.simulations[k] =
                               <<commitment[i], response[1][i], response[2][i]>>

(***************************************************************************)
(* More claims about construction.                                         *)
(***************************************************************************)
\* C17: every AndProof or OrProof that is built has at least one subproof, and
\* a call whose arguments hold no subproof, none at all or only empty lists,
\* fails.
C17_NoEmptyComposition ==
    /\ pc = "built" => Len(proof.subproofs) >= 1
    /\ (call.op \in {"AndProof", "OrProof"} /\ Len(CallSubproofs) = 0)
          => pc = "raised"

\* C19: AndProof over subproofs in which no name occurs both inside an OrProof
\* and outside it, and no name occurs in two branches of one OrProof, is built.
C19_NoFalsePositive ==
    (/\ call.op = "AndProof"
     /\ Len(CallSubproofs) >= 1
     /\ ~HasOrFlaw(Node("And", CallSubproofs))
     /\ \A o \in OrNodes(Node("And", CallSubproofs)) :
           ~SharedBetweenBranches(o.subproofs))
        => pc = "built"

C20_ChecksIndependent ==
    pc = "checked"
        => verdict.consistent
              = check_responses_consistency(proof, response, EmptyDict)[1]

====
